---- MODULE Spec2Model ----
(***************************************************************************)
(* A model of the HubSpot MCP server: the credential resolver              *)
(* (connection.py), the tool handlers (tools/*.py) and the dispatcher      *)
(* (server.py, call_tool).                                                 *)
(*                                                                         *)
(* Python values are modelled as tagged tuples of strings, JSON objects    *)
(* and keyword-argument mappings as records, exceptions as an outcome      *)
(* record {raised, etype, msg}.  Remote replies (the broker's and the      *)
(* CRM's) are inputs chosen by the environment.                            *)
(***************************************************************************)
EXTENDS Integers, Sequences, FiniteSets, TLC

VARIABLES
    env,          \* os.environ after load_dotenv: variable name -> value
    slots,        \* the server's lazily created handler objects: slot -> stored token or NoObject
    phase,        \* "idle" or "returned": whether a call_tool result is waiting to be sent
    call,         \* the invocation being answered: [name, arguments]
    resp,         \* what call_tool produced: [outcome, body, etype, msg]
    reqs,         \* the HTTP requests issued by the operation in progress, in order
    handlerCalls, \* the handler methods the invocation in progress has entered, in order
    brokerCalls,  \* broker requests issued by this process so far
    tokenCalls,   \* get_access_token calls made by this process so far
    obtained,     \* TRUE once a broker reply has yielded a token
    calls,        \* call_tool invocations so far
    tok,          \* outcome of the last direct get_access_token call
    cpc,          \* concurrent callers of get_access_token: caller -> position
    creply,       \* concurrent callers: the broker reply each one received
    cres,         \* concurrent callers: result of get_access_token
    listing,      \* the remote paginated listing: the replies the CRM gives, in order
    idiom,        \* which pagination loop runs: "after" (deals) or "link" (engagements)
    ppc,          \* position of the pagination loop
    cursor,       \* the cursor the next page request will address
    acc,          \* items accumulated by the pagination loop
    pageReqs,     \* the page requests issued so far: the cursor each addressed
    pres          \* the return value of the list operation

serverVars == <<slots, phase, call, resp, handlerCalls, calls>>
tokenVars  == <<tok>>
concVars   == <<cpc, creply, cres>>
pageVars   == <<listing, idiom, ppc, cursor, acc, pageReqs, pres>>
netVars    == <<reqs, brokerCalls, tokenCalls, obtained>>
vars == <<env, serverVars, tokenVars, concVars, pageVars, netVars>>

(***************************************************************************)
(* Bounds of the model.                                                    *)
(***************************************************************************)
MaxCalls == 2        \* call_tool invocations per behaviour
MaxTokenCalls == 3   \* direct get_access_token calls per behaviour
MaxCallers == 3      \* concurrent callers of get_access_token
MaxPages == 3        \* replies of a remote listing

(***************************************************************************)
(* Python values.                                                          *)
(***************************************************************************)
None == "<None>"                       \* os.environ.get of an unset variable, dict.get of a missing key
Truthy(s) == s # None /\ s # ""        \* bool(s) for s a str or None

Null == <<"null">>                     \* JSON null / Python None inside a JSON value
Str(s) == <<"str", s>>
IntV(s) == <<"int", s>>
Obj(id) == <<"obj", id>>               \* a JSON object received from the remote, by identity
List(items) == <<"list">> \o items     \* a JSON array of remote objects
DateTime(s) == <<"datetime", s>>       \* a datetime.datetime instance

Ret(v, rq, nt) == [raised |-> FALSE, val |-> v, etype |-> "", msg |-> "", reqs |-> rq, ntok |-> nt]
Raise(t, m, rq, nt) == [raised |-> TRUE, val |-> Null, etype |-> t, msg |-> m, reqs |-> rq, ntok |-> nt]

Range(s) == {s[i] : i \in DOMAIN s}

RECURSIVE Join(_, _)
Join(sep, parts) ==                    \* sep.join(parts)
    IF parts = <<>> THEN ""
    ELSE IF Len(parts) = 1 THEN parts[1]
    ELSE parts[1] \o sep \o Join(sep, Tail(parts))

Contains(s, sub) ==                    \* sub in s, for strings
    \E i \in 1..(Len(s) - Len(sub) + 1) : SubSeq(s, i, i + Len(sub) - 1) = sub

(***************************************************************************)
(* connection.py                                                           *)
(***************************************************************************)
NangoVars == <<"NANGO_CONNECTION_ID", "NANGO_INTEGRATION_ID", "NANGO_BASE_URL", "NANGO_SECRET_KEY">>
EnvVars == Range(NangoVars) \cup {"HUBSPOT_ACCESS_TOKEN"}

BrokerTimeout == 30

\* What requests.get answers for the broker request: no response at all
\* (kind "transport"), or a response with a status and a JSON body of which
\* creds says whether "credentials" is missing, null or an object, and token
\* is credentials.access_token (None when the key is missing).
BrokerReply(kind, status, creds, token) ==
    [kind |-> kind, status |-> status, creds |-> creds, token |-> token]
BrokerTransportFailure == BrokerReply("transport", 0, "missing", None)
BrokerHttpError == BrokerReply("http", 401, "missing", None)
BrokerOk(token) == BrokerReply("http", 200, "object", token)
BrokerReplies ==
    {BrokerTransportFailure, BrokerHttpError,
     BrokerReply("http", 200, "missing", None), BrokerReply("http", 200, "null", None),
     BrokerOk(None), BrokerOk(""), BrokerOk("T1"), BrokerOk("T2")}

TransportText == "Connection refused"
Reason(status) ==                      \* the reason phrase of a status line
    CASE status = 401 -> "Unauthorized"
      [] status = 404 -> "Not Found"
      [] OTHER -> "Error"
HttpErrorText(status, url) ==          \* str(HTTPError) as raise_for_status builds it
    ToString(status) \o (IF status >= 500 THEN " Server Error: " ELSE " Client Error: ")
        \o Reason(status) \o " for url: " \o url

missing_vars_skip(e) ==
    SelectSeq(NangoVars, LAMBDA v : e[v] = None)
missing_vars(e) ==                     \* connection.py:21-29
    SelectSeq(NangoVars, LAMBDA v : ~Truthy(e[v]))

JsonContentType == "application/json"
BrokerRequest(e) ==                    \* connection.py:33-42
    [dest |-> "broker", method |-> "GET", content_type |-> None,
     url |-> e["NANGO_BASE_URL"] \o "/connection/" \o e["NANGO_CONNECTION_ID"],
     auth |-> "Bearer " \o e["NANGO_SECRET_KEY"],
     payload |-> "provider_config_key=" \o e["NANGO_INTEGRATION_ID"] \o "&refresh_token=true",
     timeout |-> BrokerTimeout]

get_connection_credentials_unchecked(e, reply) ==
    LET rq == <<BrokerRequest(e)>> IN
    IF reply.kind = "transport"
    THEN Raise("ValueError",
               "Failed to get connection credentials from Nango: " \o TransportText, rq, 0)
    ELSE IF reply.status >= 400
    THEN Raise("ValueError",
               "Failed to get connection credentials from Nango: "
                   \o HttpErrorText(reply.status, rq[1].url), rq, 0)
    ELSE Ret(reply, rq, 0)
get_connection_credentials(e, reply) ==
    IF missing_vars(e) # <<>>
    THEN Raise("ValueError",
               "Missing required environment variables: " \o Join(", ", missing_vars(e)),
               <<>>, 0)
    ELSE LET rq == <<BrokerRequest(e)>> IN
         IF reply.kind = "transport"
         THEN Raise("ValueError",
                    "Failed to get connection credentials from Nango: " \o TransportText, rq, 0)
         ELSE IF reply.status >= 400
         THEN Raise("ValueError",
                    "Failed to get connection credentials from Nango: "
                        \o HttpErrorText(reply.status, rq[1].url), rq, 0)
         ELSE Ret(reply, rq, 0)

fallback_never(e, exc) ==
    Raise("ValueError", "Failed to get access token: " \o exc.msg, exc.reqs, 1)
fallback(e, exc) ==                    \* connection.py:59-66
    IF Truthy(e["HUBSPOT_ACCESS_TOKEN"])
    THEN Ret(e["HUBSPOT_ACCESS_TOKEN"], exc.reqs, 1)
    ELSE Raise("ValueError", "Failed to get access token: " \o exc.msg, exc.reqs, 1)

get_access_token_static_first(e, reply) ==
    IF Truthy(e["HUBSPOT_ACCESS_TOKEN"])
    THEN Ret(e["HUBSPOT_ACCESS_TOKEN"], <<>>, 1)
    ELSE fallback(e, get_connection_credentials(e, reply))
get_access_token(e, reply) ==          \* connection.py:50-66
    LET credentials == get_connection_credentials(e, reply) IN
    IF credentials.raised THEN fallback(e, credentials)
    ELSE IF credentials.val.creds = "null"
    THEN fallback(e, Raise("AttributeError", "'NoneType' object has no attribute 'get'",
                           credentials.reqs, 0))
    ELSE LET access_token == IF credentials.val.creds = "missing" THEN None
                             ELSE credentials.val.token IN
         IF ~Truthy(access_token)
         THEN fallback(e, Raise("ValueError", "Access token not found in credentials response",
                                credentials.reqs, 0))
         ELSE Ret(access_token, credentials.reqs, 1)

(***************************************************************************)
(* Environments and the states no operation has touched yet.               *)
(***************************************************************************)
EnvValue(v) ==                         \* the value a configured variable holds
    CASE v = "NANGO_CONNECTION_ID" -> "conn-1"
      [] v = "NANGO_INTEGRATION_ID" -> "hubspot"
      [] v = "NANGO_BASE_URL" -> "https://nango.test"
      [] v = "NANGO_SECRET_KEY" -> "sk-1"
      [] v = "HUBSPOT_ACCESS_TOKEN" -> "S"

\* every environment: each variable unset, set to the empty string, or set
AllEnvs == {e \in [EnvVars -> {None, "", "conn-1", "hubspot", "https://nango.test", "sk-1", "S"}] :
               \A v \in EnvVars : e[v] \in {None, "", EnvValue(v)}}

NoArgs == [k \in {} |-> Null]
NoCall == [name |-> "", arguments |-> NoArgs, exc |-> "", replies |-> <<>>, tokens |-> <<>>]
NoResp == [outcome |-> "none", body |-> NoArgs, etype |-> "", msg |-> ""]
NoTok == [called |-> FALSE, reply |-> BrokerTransportFailure, out |-> Ret("", <<>>, 0)]
NoPage == [raised |-> FALSE, result |-> Null, error |-> Null]

SlotNames ==                           \* server.py:46-53
    {"hubspot_client", "list_manager", "contact_deleter", "contact_updater", "contact_searcher",
     "contact_getter", "recent_contacts_getter", "contact_creator"}
ServerIdle_eager ==
    /\ slots = [s \in SlotNames |-> IF s = "hubspot_client" THEN "T1" ELSE None]
    /\ phase = "idle" /\ call = NoCall /\ resp = NoResp /\ handlerCalls = <<>> /\ calls = 0
ServerIdle ==                          \* server.py:41-56
    /\ slots = [s \in SlotNames |-> None] /\ phase = "idle" /\ call = NoCall /\ resp = NoResp
    /\ handlerCalls = <<>> /\ calls = 0
NetIdle == reqs = <<>> /\ brokerCalls = 0 /\ tokenCalls = 0 /\ obtained = FALSE
TokenIdle == tok = NoTok
ConcIdle == cpc = <<>> /\ creply = <<>> /\ cres = <<>>
PageIdle ==
    /\ listing = <<>> /\ idiom = "" /\ ppc = "off" /\ cursor = None /\ acc = <<>>
    /\ pageReqs = <<>> /\ pres = NoPage

(***************************************************************************)
(* SpecToken: get_access_token called directly, under every environment    *)
(* and every broker reply.                                                 *)
(***************************************************************************)
FromBroker(r, reply) == ~r.raised /\ r.reqs # <<>> /\ r.val = reply.token

GetAccessToken_cached ==
    /\ tokenCalls < MaxTokenCalls
    /\ \E reply \in BrokerReplies :
          LET r == IF obtained THEN Ret(tok.out.val, <<>>, 1) ELSE get_access_token(env, reply) IN
          /\ tok' = [called |-> TRUE, reply |-> reply, out |-> r]
          /\ reqs' = r.reqs
          /\ brokerCalls' = brokerCalls + Len(r.reqs)
          /\ tokenCalls' = tokenCalls + r.ntok
          /\ obtained' = (obtained \/ FromBroker(r, reply))
    /\ UNCHANGED <<env, serverVars, concVars, pageVars>>
GetAccessToken ==
    /\ tokenCalls < MaxTokenCalls
    /\ \E reply \in BrokerReplies :
          LET r == get_access_token(env, reply) IN
          /\ tok' = [called |-> TRUE, reply |-> reply, out |-> r]
          /\ reqs' = r.reqs
          /\ brokerCalls' = brokerCalls + Len(r.reqs)
          /\ tokenCalls' = tokenCalls + r.ntok
          /\ obtained' = (obtained \/ FromBroker(r, reply))
    /\ UNCHANGED <<env, serverVars, concVars, pageVars>>

InitToken ==
    /\ env \in AllEnvs
    /\ ServerIdle /\ NetIdle /\ TokenIdle /\ ConcIdle /\ PageIdle
NextToken == GetAccessToken
SpecToken == InitToken /\ [][NextToken]_vars

(***************************************************************************)
(* SpecConc: several callers inside get_access_token at once.  The         *)
(* function takes no lock and keeps no state between calls; a caller       *)
(* blocks in requests.get (connection.py:42) and others run meanwhile.     *)
(***************************************************************************)
Env(unset, empty) ==
    [v \in EnvVars |-> IF v \in unset THEN None ELSE IF v \in empty THEN "" ELSE EnvValue(v)]
\* representative environments: broker and static token, broker only, static
\* only, nothing, a broker value missing, a broker value empty beside a static token
SomeEnvs ==
    {Env({}, {}), Env({"HUBSPOT_ACCESS_TOKEN"}, {}), Env(Range(NangoVars), {}),
     Env(EnvVars, {}), Env({"NANGO_SECRET_KEY", "HUBSPOT_ACCESS_TOKEN"}, {}),
     Env({}, {"NANGO_BASE_URL"})}

Callers == 1..MaxCallers

CStart_shared(c) ==
    /\ cpc[c] = "start"
    /\ tokenCalls' = tokenCalls + 1
    /\ cpc' = [cpc EXCEPT ![c] = "waiting"]
    /\ IF brokerCalls = 0
       THEN reqs' = Append(reqs, BrokerRequest(env)) /\ brokerCalls' = 1
       ELSE UNCHANGED <<reqs, brokerCalls>>
    /\ UNCHANGED <<env, serverVars, tokenVars, pageVars, creply, cres, obtained>>
\* get_access_token entered: get_connection_credentials reads the
\* configuration and either raises (no request) or sends the broker request
CStart(c) ==                           \* connection.py:50-53, 13-42
    /\ cpc[c] = "start"
    /\ tokenCalls' = tokenCalls + 1
    /\ IF missing_vars(env) # <<>>
       THEN /\ cres' = [cres EXCEPT ![c] = get_access_token(env, BrokerTransportFailure)]
            /\ cpc' = [cpc EXCEPT ![c] = "done"]
            /\ UNCHANGED <<reqs, brokerCalls>>
       ELSE /\ reqs' = Append(reqs, BrokerRequest(env))
            /\ brokerCalls' = brokerCalls + 1
            /\ cpc' = [cpc EXCEPT ![c] = "waiting"]
            /\ UNCHANGED cres
    /\ UNCHANGED <<env, serverVars, tokenVars, pageVars, creply, obtained>>

\* the broker answers this caller's request; the rest of get_access_token runs
CReply(c) ==                           \* connection.py:42-48, 54-66
    /\ cpc[c] = "waiting"
    /\ \E reply \in BrokerReplies :
          LET r == get_access_token(env, reply) IN
          /\ creply' = [creply EXCEPT ![c] = reply]
          /\ cres' = [cres EXCEPT ![c] = r]
          /\ obtained' = (obtained \/ FromBroker(r, reply))
    /\ cpc' = [cpc EXCEPT ![c] = "done"]
    /\ UNCHANGED <<env, serverVars, tokenVars, pageVars, reqs, brokerCalls, tokenCalls>>

InitConc ==
    /\ env \in SomeEnvs
    /\ cpc = [c \in Callers |-> "start"]
    /\ creply = [c \in Callers |-> BrokerTransportFailure]
    /\ cres = [c \in Callers |-> Ret("", <<>>, 0)]
    /\ ServerIdle /\ NetIdle /\ TokenIdle /\ PageIdle
NextConc == \E c \in Callers : CStart(c) \/ CReply(c)
SpecConc == InitConc /\ [][NextConc]_vars

(***************************************************************************)
(* SpecPage: the cursor-following loops of tools/deal.py (get_all_deals,   *)
(* the "after" token passed as a query parameter) and tools/engagement.py *)
(* (get_engagements, the "next link" requested verbatim).                  *)
(*                                                                         *)
(* The remote listing is a chain of pages.  The CRM answers a request that *)
(* carries no cursor with the first page, and a request that addresses a   *)
(* cursor with the page that follows the first page issuing that cursor.   *)
(***************************************************************************)
BaseUrl == "https://api.hubapi.com"
NoTimeout == 0                         \* requests called without timeout=
PrintExtraText == "'extra' is an invalid keyword argument for print()"

Page(status, results, next) == [status |-> status, results |-> results, next |-> next]
PageItems(i) == <<"p" \o ToString(i) \o ".1", "p" \o ToString(i) \o ".2">>
CursorName(i) == "https://api.hubapi.com/next/c" \o ToString(i)
\* the cursor page i may issue: none, an empty one, a fresh one, or the one
\* the page before it issued
NextOf(i) == {None, "", CursorName(i)} \cup (IF i > 1 THEN {CursorName(i - 1)} ELSE {})
LastPages(i) == {Page(200, PageItems(i), c) : c \in NextOf(i)} \cup {Page(500, <<>>, None)}
InnerPages(i) == {Page(200, PageItems(i), c) : c \in NextOf(i) \ {None}}
\* chains of 1..MaxPages pages: every page but the last issues a cursor
Listings ==
    UNION {{l \in [1..n -> UNION {LastPages(i) : i \in 1..n}] :
               /\ l[n] \in LastPages(n)
               /\ \A i \in 1..(n - 1) : l[i] \in InnerPages(i)} : n \in 1..MaxPages}

Min(S) == CHOOSE x \in S : \A y \in S : x <= y
Server(l, c) ==                        \* the page the CRM serves for cursor c
    IF c = None THEN l[1]
    ELSE LET J == {j \in 1..(Len(l) - 1) : l[j].next = c} IN
         IF J = {} THEN Page(400, <<>>, None) ELSE l[Min(J) + 1]

\* the three loops: "after" is get_all_deals, "filters" is
\* get_deals_by_filters, "link" is get_engagements
Idioms == {"after", "filters", "link"}
IsDeal(id) == id \in {"after", "filters"}
Endpoint(id) == IF id = "after" THEN BaseUrl \o "/crm/v3/objects/deals"
                ELSE IF id = "filters" THEN BaseUrl \o "/crm/v3/objects/deals/search"
                ELSE BaseUrl \o "/crm/v3/objects/engagements"
\* the cursor the next request carries: get_deals_by_filters writes its
\* variable into the payload only when it is truthy, so an empty cursor
\* leaves the payload of the request before in place
Sent(id, c, rqs) ==                    \* deal.py:538-539
    IF id = "filters" /\ ~Truthy(c)
    THEN (IF rqs = <<>> THEN None ELSE rqs[Len(rqs)].after)
    ELSE c
PageRequest(id, c, token) ==           \* deal.py:431, deal.py:541, engagement.py:280
    [dest |-> "crm", method |-> IF id = "filters" THEN "POST" ELSE "GET",
     url |-> IF id = "link" /\ c # None THEN c ELSE Endpoint(id),
     after |-> IF IsDeal(id) THEN c ELSE None,
     auth |-> "Bearer " \o token, content_type |-> JsonContentType,
     timeout |-> NoTimeout]
Addressed(id, rq) ==                   \* the cursor a page request addresses
    IF IsDeal(id) THEN rq.after
    ELSE IF rq.url = Endpoint(id) THEN None ELSE rq.url

PRet(result, error) == [raised |-> FALSE, etype |-> "", msg |-> "", result |-> result, error |-> error]
PRaise(t, m) == [raised |-> TRUE, etype |-> t, msg |-> m, result |-> Null, error |-> Null]

\* how a failure inside the try block ends: deal.py's except branches call
\* print(..., extra=...), which raises TypeError out of the method;
\* engagement.py's logs and returns the error
page_failure(id, text) ==              \* deal.py:453-461, engagement.py:293-296
    IF IsDeal(id) THEN PRaise("TypeError", PrintExtraText)
    ELSE PRet(Null, Str("Error fetching engagements: " \o text))

\* one iteration of the loop, given the reply to its request
page_step_first_only(id, items, page, transport) ==
    IF transport \/ page.status # 200 THEN [done |-> TRUE, acc |-> items, cursor |-> None,
                                             pres |-> page_failure(id, TransportText)]
    ELSE [done |-> TRUE, acc |-> items \o page.results, cursor |-> None,
          pres |-> PRet(List(items \o page.results), Null)]
page_step(id, items, page, transport) ==   \* deal.py:430-451, 537-563, engagement.py:279-291
    IF transport
    THEN [done |-> TRUE, acc |-> items, cursor |-> None, pres |-> page_failure(id, TransportText)]
    ELSE IF IsDeal(id) /\ page.status >= 400
    THEN [done |-> TRUE, acc |-> items, cursor |-> None, pres |-> page_failure(id, "")]
    ELSE IF id = "link" /\ page.status # 200
    THEN [done |-> TRUE, acc |-> items, cursor |-> None,
          pres |-> PRet(Null, Str("Failed to fetch engagements: " \o ToString(page.status)
                                     \o " " \o Reason(page.status)))]
    ELSE LET all == items \o page.results
             more == IF IsDeal(id) THEN page.next # None ELSE Truthy(page.next) IN
         IF more THEN [done |-> FALSE, acc |-> all, cursor |-> page.next, pres |-> NoPage]
         ELSE [done |-> TRUE, acc |-> all, cursor |-> None, pres |-> PRet(List(all), Null)]

\* the method is entered: it resolves a token before the loop
PBegin ==                              \* deal.py:414-429, engagement.py:268-277
    /\ ppc = "start"
    /\ \E reply \in BrokerReplies :
          LET r == get_access_token(env, reply) IN
          /\ tok' = [called |-> TRUE, reply |-> reply, out |-> r]
          /\ reqs' = r.reqs
          /\ brokerCalls' = brokerCalls + Len(r.reqs)
          /\ tokenCalls' = tokenCalls + 1
          /\ obtained' = (obtained \/ FromBroker(r, reply))
          /\ IF r.raised
             THEN ppc' = "done" /\ pres' = page_failure(idiom, "Failed to get access token: " \o r.msg)
             ELSE ppc' = "loop" /\ pres' = pres
    /\ UNCHANGED <<env, serverVars, concVars, listing, idiom, cursor, acc, pageReqs>>

\* one pass through the loop body: the request, its reply, the test for a next page
FetchPage ==                           \* deal.py:430-451, engagement.py:279-291
    /\ ppc = "loop"
    /\ Len(pageReqs) < MaxPages + 1
    /\ \E transport \in BOOLEAN :
          LET sent == Sent(idiom, cursor, pageReqs)
              st == page_step(idiom, acc, Server(listing, sent), transport) IN
          /\ pageReqs' = Append(pageReqs, PageRequest(idiom, sent, tok.out.val))
          /\ acc' = st.acc
          /\ cursor' = st.cursor
          /\ pres' = st.pres
          /\ ppc' = IF st.done THEN "done" ELSE "loop"
    /\ UNCHANGED <<env, serverVars, tokenVars, concVars, netVars, listing, idiom>>

InitPage ==
    /\ env \in {Env({}, {}), Env(EnvVars, {})}
    /\ listing \in Listings
    /\ idiom \in Idioms
    /\ ppc = "start" /\ cursor = None /\ acc = <<>> /\ pageReqs = <<>> /\ pres = NoPage
    /\ ServerIdle /\ NetIdle /\ TokenIdle /\ ConcIdle
NextPage == PBegin \/ FetchPage
SpecPage == InitPage /\ [][NextPage]_vars

(***************************************************************************)
(* Values handed to and returned by the tool handlers.                     *)
(***************************************************************************)
Arg(args, k, d) == IF k \in DOMAIN args THEN args[k] ELSE d     \* a keyword input or its default
ValTruthy(v) == v \notin {Null, Str(""), IntV("0"), List(<<>>)} \* bool(v)
Text(v) == IF v = Null THEN "None" ELSE v[2]                    \* str(v) inside an f-string
Envelope(result, error) == [result |-> result, error |-> error]
Failed(message) == [status |-> Str("failed"), error |-> Str(message)]

CrmTimeout == 30           \* contact.py: timeout=30
CompanyTimeout == 10       \* company.py: timeout=10
ErrBodyText == "{'status': 'error', 'message': 'rejected'}"

\* What the CRM answers: no response at all (kind "transport"), or a
\* response with a status and a JSON body holding total and results.
CrmReply(kind, status, total, results) ==
    [kind |-> kind, status |-> status, total |-> total, results |-> results]
CrmTransportFailure == CrmReply("transport", 0, 0, <<>>)
CrmReplies ==
    {CrmTransportFailure, CrmReply("http", 404, 0, <<>>), CrmReply("http", 201, 0, <<>>),
     CrmReply("http", 200, 0, <<>>), CrmReply("http", 200, 1, <<"101">>),
     CrmReply("http", 200, 1, <<>>)}         \* the last one: a total that disagrees with results

CrmRequest_bare(method, url, token, payload, timeout) ==
    [dest |-> "crm", method |-> method, url |-> url, auth |-> "", content_type |-> None,
     payload |-> payload, timeout |-> timeout]
CrmRequest(method, url, token, payload, timeout) ==      \* the headers of contact.py:22-25
    [dest |-> "crm", method |-> method, url |-> url, auth |-> "Bearer " \o token,
     content_type |-> JsonContentType, payload |-> payload, timeout |-> timeout]
Ok(c) == c.kind = "http" /\ c.status < 400                       \* response.ok / raise_for_status passes
RequestExceptionText(c, url) ==                                  \* str(e) of the RequestException raised
    IF c.kind = "transport" THEN TransportText ELSE HttpErrorText(c.status, url)
ApiFailedText(c, url) ==                                         \* company.py:52-56
    "API request failed: " \o ToString(c.status) \o " " \o Reason(c.status) \o " for url: " \o url
        \o ". Details: " \o ErrBodyText

(***************************************************************************)
(* tools/company.py                                                        *)
(***************************************************************************)
\* print(message, extra={...}): print accepts no keyword "extra" and raises
\* TypeError before anything is written, so the statement after it, cont,
\* is never reached
print_extra(cont, rq, nt) ==           \* company.py:57-64 and every other print(..., extra=...)
    Raise("TypeError", PrintExtraText, rq, nt)

\* the except branches of the company handlers: build the message, print, return
company_except(prefix, exc, rq) ==     \* company.py:85-88, 148-154
    print_extra(Ret(Envelope(Null, Str(prefix \o exc.msg)), rq, 1), rq, 1)
company_request_except(text, rq) ==    \* company.py:80-83, 135-146
    print_extra(Ret(Envelope(Null, Str("API request failed: " \o text)), rq, 1), rq, 1)
\* a TypeError raised inside the try block lands in "except Exception"
guarded(prefix, body, rq) == IF body.raised THEN company_except(prefix, body, rq) ELSE body

CompanyUrl(company_id) == BaseUrl \o "/crm/v3/objects/companies/" \o company_id

delete_company(e, args, hb, c) ==      \* company.py:38-88
    LET url == CompanyUrl(Text(args.company_id))
        t == get_access_token(e, hb)
        rq == t.reqs \o <<CrmRequest("DELETE", url, t.val, "", CompanyTimeout)>> IN
    IF t.raised THEN company_except("Unexpected error: ", t, t.reqs)
    ELSE IF c.kind = "transport" THEN company_request_except(TransportText, rq)
    ELSE guarded("Unexpected error: ",
                 IF ~Ok(c)
                 THEN print_extra(Ret(Envelope(Null, Str(ApiFailedText(c, url))), rq, 1), rq, 1)
                 ELSE print_extra(Ret(Envelope(
                          Obj("Successfully deleted company with ID: " \o Text(args.company_id)),
                          Null), rq, 1), rq, 1),
                 rq)

get_company_details(e, args, hb, c) == \* company.py:92-154
    LET url == CompanyUrl(Text(args.company_id)) \o "?archived=false&properties=name"
        t == get_access_token(e, hb)
        rq == t.reqs \o <<CrmRequest("GET", url, t.val, "", CompanyTimeout)>> IN
    IF t.raised THEN company_except("", t, t.reqs)
    ELSE IF ~Ok(c) THEN company_request_except(RequestExceptionText(c, url), rq)
    ELSE guarded("", print_extra(Ret(Envelope(Obj("company"), Null), rq, 1), rq, 1), rq)

get_filtered_companies(e, args, hb, c) ==  \* company.py:158-239
    LET url == BaseUrl \o "/crm/v3/objects/companies/search"
        t == get_access_token(e, hb)
        filters == (IF ValTruthy(Arg(args, "company_ids", Null)) THEN "hs_object_id IN;" ELSE "")
                   \o (IF ValTruthy(Arg(args, "created_after", Str("")))
                       THEN "createdate GTE " \o Text(args.created_after) \o ";" ELSE "")
                   \o (IF ValTruthy(Arg(args, "created_before", Str("")))
                       THEN "createdate LTE " \o Text(args.created_before) \o ";" ELSE "")
        payload == filters \o "limit=" \o Text(Arg(args, "limit", IntV("100")))
        rq == t.reqs \o <<CrmRequest("POST", url, t.val, payload, CompanyTimeout)>> IN
    IF t.raised THEN company_except("", t, t.reqs)
    ELSE IF ~Ok(c) THEN company_request_except(RequestExceptionText(c, url), rq)
    ELSE guarded("", print_extra(Ret(Envelope(List(c.results), Null), rq, 1), rq, 1), rq)

get_all_companies(e, args, hb, c) ==   \* company.py:546-585
    LET url == BaseUrl \o "/crm/v3/objects/companies"
        t == get_access_token(e, hb)
        rq == t.reqs \o <<CrmRequest("GET", url, t.val, "", CompanyTimeout)>> IN
    IF t.raised THEN company_except("", t, t.reqs)
    ELSE IF ~Ok(c) THEN company_request_except(RequestExceptionText(c, url), rq)
    ELSE guarded("", print_extra(Ret(Envelope(List(c.results), Null), rq, 1), rq, 1), rq)

VALID_INDUSTRIES ==                    \* company.py:242-280
    {"ACCOUNTING", "AGRICULTURE", "APPAREL", "BANKING", "BIOTECHNOLOGY", "CHEMICALS",
     "COMMUNICATIONS", "CONSTRUCTION", "CONSULTING", "EDUCATION", "ELECTRONICS", "ENERGY",
     "ENGINEERING", "ENTERTAINMENT", "ENVIRONMENTAL", "FINANCE", "FOOD & BEVERAGE",
     "GOVERNMENT", "HEALTHCARE", "HOSPITALITY", "INSURANCE", "MACHINERY", "MANUFACTURING",
     "MEDIA", "NOT FOR PROFIT", "OTHER", "PHARMACEUTICALS", "REAL ESTATE", "RETAIL",
     "SHIPPING", "SOFTWARE", "SPORTS", "TECHNOLOGY", "TELECOMMUNICATIONS", "TRANSPORTATION",
     "UTILITIES", "RECREATION"}

Lower == "abcdefghijklmnopqrstuvwxyz"
Upper == "ABCDEFGHIJKLMNOPQRSTUVWXYZ"
UpperChar(ch) ==
    LET I == {i \in 1..Len(Lower) : SubSeq(Lower, i, i) = ch} IN
    IF I = {} THEN ch ELSE LET i == CHOOSE i \in I : TRUE IN SubSeq(Upper, i, i)
RECURSIVE upper(_)
upper(s) == IF s = "" THEN "" ELSE UpperChar(SubSeq(s, 1, 1)) \o upper(SubSeq(s, 2, Len(s)))
RECURSIVE strip(_)
strip(s) ==                            \* str.strip() of blanks
    IF s = "" THEN ""
    ELSE IF SubSeq(s, 1, 1) = " " THEN strip(SubSeq(s, 2, Len(s)))
    ELSE IF SubSeq(s, Len(s), Len(s)) = " " THEN strip(SubSeq(s, 1, Len(s) - 1))
    ELSE s

validate_industry(industry, rq) ==     \* company.py:282-307
    LET normalized == strip(upper(industry)) IN
    print_extra(IF normalized \notin VALID_INDUSTRIES
                THEN Raise("ValueError", "Invalid industry value: '" \o industry \o "'. ", rq, 1)
                ELSE Ret(Str(normalized), rq, 1),
                rq, 1)

UpdateFields ==                        \* company.py:340-372: argument -> CRM property
    <<"name", "domain", "industry", "phone", "address", "city", "state", "country", "zip_code",
      "description", "employee_count", "revenue", "linkedin_url", "twitter_handle", "website_url">>
UpdateGiven(args, k) ==                \* whether the argument contributes a property
    IF k \in {"employee_count", "revenue"} THEN Arg(args, k, Null) # Null
    ELSE ValTruthy(Arg(args, k, Str("")))

update_company_fields_first(e, args, hb, c) ==
    Ret(Envelope(Null, Str("No fields provided for update")), <<>>, 0)
update_company(e, args, hb, c) ==      \* company.py:311-435
    LET url == CompanyUrl(Text(args.company_id))
        t == get_access_token(e, hb)
        industry == Arg(args, "industry", Str(""))
        checked == validate_industry(Text(industry), t.reqs)
        properties == {k \in Range(UpdateFields) : UpdateGiven(args, k)}
        rq == t.reqs \o <<CrmRequest("PATCH", url, t.val, "properties", CompanyTimeout)>>
        send == IF c.kind = "transport" THEN company_request_except(TransportText, rq)
                ELSE IF ~Ok(c)
                THEN guarded("Unexpected error: ",
                             print_extra(Ret([result |-> Null,
                                              error |-> Str("API request failed: " \o ToString(c.status)
                                                            \o " " \o Reason(c.status) \o " for url: " \o url),
                                              details |-> Str(ErrBodyText)], rq, 1), rq, 1), rq)
                ELSE guarded("Unexpected error: ",
                             print_extra(Ret(Envelope(Obj("company"), Null), rq, 1), rq, 1), rq) IN
    IF t.raised THEN company_except("Unexpected error: ", t, t.reqs)
    ELSE IF ValTruthy(industry) /\ checked.raised /\ checked.etype = "ValueError"
    THEN Ret(Envelope(Null, Str(checked.msg)), t.reqs, 1)
    ELSE IF ValTruthy(industry) /\ checked.raised
    THEN company_except("Unexpected error: ", checked, t.reqs)
    ELSE IF properties = {}
    THEN Ret(Envelope(Null, Str("No fields provided for update")), t.reqs, 1)
    ELSE guarded("Unexpected error: ", print_extra(send, t.reqs, 1), t.reqs)

IndexOf(s, sub) ==                     \* str.find, 1-based; 0 when absent
    LET I == {i \in 1..(Len(s) - Len(sub) + 1) : SubSeq(s, i, i + Len(sub) - 1) = sub} IN
    IF I = {} THEN 0 ELSE Min(I)
RECURSIVE lstrip(_, _)
lstrip(s, chars) ==                    \* str.lstrip(chars): drops leading characters of the set
    IF s # "" /\ Contains(chars, SubSeq(s, 1, 1)) THEN lstrip(SubSeq(s, 2, Len(s)), chars) ELSE s
netloc(url) ==                         \* urlparse(url).netloc
    LET i == IndexOf(url, "://") IN
    IF i = 0 THEN ""
    ELSE LET rest == SubSeq(url, i + 3, Len(url))
             j == IndexOf(rest, "/") IN
         IF j = 0 THEN rest ELSE SubSeq(rest, 1, j - 1)
normalize_domain(domain) ==            \* company.py:493-496
    LET d == IF netloc(domain) # "" THEN netloc(domain) ELSE domain IN
    IF Len(d) >= 4 /\ SubSeq(d, 1, 4) = "www." THEN lstrip(d, "www.") ELSE d

search_company_by_domain(e, args, hb, c) ==    \* company.py:439-491
    LET url == BaseUrl \o "/crm/v3/objects/companies/search"
        t == get_access_token(e, hb)
        payload == "domain EQ " \o normalize_domain(Text(args.domain))
                   \o ";limit=" \o Text(Arg(args, "limit", IntV("10")))
        rq == t.reqs \o <<CrmRequest("POST", url, t.val, payload, NoTimeout)>> IN
    IF t.raised THEN company_except("Unexpected error: ", t, t.reqs)
    ELSE IF c.kind = "transport" THEN company_request_except(TransportText, rq)
    ELSE IF c.status # 200
    THEN guarded("Unexpected error: ",
                 print_extra(Ret(Envelope(Null, Str("API request failed: " \o ToString(c.status)
                                                        \o " " \o ErrBodyText)), rq, 1), rq, 1), rq)
    ELSE Ret(Envelope(List(c.results), Null), rq, 1)

get_recent_companies(e, args, hb, c) ==        \* company.py:500-543
    LET url == BaseUrl \o "/crm/v3/objects/companies"
        sort_by == Arg(args, "sort_by", Str("createdate"))
        t == get_access_token(e, hb)
        payload == "limit=" \o Text(Arg(args, "limit", IntV("10"))) \o "&sort=-" \o Text(sort_by)
        rq == t.reqs \o <<CrmRequest("GET", url, t.val, payload, NoTimeout)>> IN
    IF sort_by \notin {Str("createdate"), Str("hs_lastmodifieddate")}
    THEN Ret(Envelope(Null, Str("Invalid sort_by value. Use 'createdate' or 'hs_lastmodifieddate'.")),
             <<>>, 0)
    ELSE IF t.raised THEN company_except("Unexpected error: ", t, t.reqs)
    ELSE IF c.kind = "transport" THEN company_request_except(TransportText, rq)
    ELSE IF c.status # 200
    THEN guarded("Unexpected error: ",
                 print_extra(Ret(Envelope(Null, Str("API request failed: " \o ToString(c.status)
                                                        \o " " \o ErrBodyText)), rq, 1), rq, 1), rq)
    ELSE Ret(Envelope(List(c.results), Null), rq, 1)

\* HubSpotClient.create_company: the request itself; failures are raised
client_create_company(e, hb, c) ==     \* company.py:19-34
    LET url == BaseUrl \o "/crm/v3/objects/companies"
        t == get_access_token(e, hb)
        rq == t.reqs \o <<CrmRequest("POST", url, t.val, "properties", NoTimeout)>> IN
    IF t.raised THEN Raise(t.etype, t.msg, t.reqs, 1)
    ELSE IF ~Ok(c) THEN Raise("RequestException", RequestExceptionText(c, url), rq, 1)
    ELSE Ret(Obj("company"), rq, 1)

create_company(e, args, hb, c) ==      \* company.py:588-615
    LET api_response == client_create_company(e, hb, c) IN
    IF api_response.raised
    THEN print_extra(Ret(Envelope(Null, Str("An error occurred while creating the company: "
                                              \o api_response.msg)),
                         api_response.reqs, 1), api_response.reqs, 1)
    ELSE Ret(Envelope(api_response.val, Null), api_response.reqs, 1)

(***************************************************************************)
(* tools/contact.py                                                        *)
(***************************************************************************)
\* _get_headers: a get_access_token call; its ValueError is not a
\* RequestException, so no handler of this file catches it
get_headers_stored(e, hb) == Ret("T1", <<>>, 0)
get_headers(e, hb) == get_access_token(e, hb)                   \* contact.py:19-25
Success_with_result(fields) == [status |-> Str("success"), result |-> Obj("value")] @@ fields
Success(fields) == [status |-> Str("success")] @@ fields
\* " - Details: ..." is appended when the exception carries a response
Details(c) == IF c.kind = "http" THEN " - Details: " \o ErrBodyText ELSE ""
ContactsUrl == BaseUrl \o "/crm/v3/objects/contacts"

list_membership(e, args, hb, c, verb, gerund, prep) ==          \* contact.py:38-65, 78-103
    LET url == BaseUrl \o "/contacts/v1/lists/" \o Text(args.list_id) \o "/" \o verb
        h == get_headers(e, hb)
        rq == h.reqs \o <<CrmRequest("POST", url, h.val, "vids=" \o Text(args.contact_id), CrmTimeout)>> IN
    IF h.raised THEN Raise(h.etype, h.msg, h.reqs, 1)
    ELSE IF ~Ok(c)
    THEN Ret(Failed("Error " \o gerund \o " contact " \o Text(args.contact_id) \o prep
                        \o Text(args.list_id) \o ": " \o RequestExceptionText(c, url) \o Details(c)),
             rq, 1)
    ELSE Ret(Success([response |-> Obj("membership")]), rq, 1)
add_contact_to_list(e, args, hb, c) ==                          \* contact.py:27-65
    list_membership(e, args, hb, c, "add", "adding", " to list ")
remove_contact_from_list(e, args, hb, c) ==                     \* contact.py:67-103
    list_membership(e, args, hb, c, "remove", "removing", " from list ")

delete_contact_by_id(e, args, hb, c) ==                         \* contact.py:121-160
    LET url == ContactsUrl \o "/" \o Text(args.contact_id)
        h == get_headers(e, hb)
        rq == h.reqs \o <<CrmRequest("DELETE", url, h.val, "", CrmTimeout)>> IN
    IF h.raised THEN Raise(h.etype, h.msg, h.reqs, 1)
    ELSE IF ~Ok(c)
    THEN Ret(Failed("Error deleting HubSpot contact: " \o RequestExceptionText(c, url) \o Details(c)),
             rq, 1)
    ELSE Ret(Success([message |-> Str("Contact " \o Text(args.contact_id) \o " successfully deleted")]),
             rq, 1)

delete_contact_by_email_unchecked(e, args, hb, c, hb2, c2) ==
    LET url == ContactsUrl \o "/search"
        h == get_headers(e, hb)
        rq == h.reqs \o <<CrmRequest("POST", url, h.val, "email EQ " \o Text(args.email), CrmTimeout)>> IN
    IF h.raised THEN Raise(h.etype, h.msg, h.reqs, 1)
    ELSE LET d == delete_contact_by_id(e, [contact_id |-> Str("101")], hb2, c2) IN
         [d EXCEPT !.reqs = rq \o d.reqs, !.ntok = 1 + d.ntok]
delete_contact_by_email(e, args, hb, c, hb2, c2) ==             \* contact.py:162-220
    LET url == ContactsUrl \o "/search"
        h == get_headers(e, hb)
        rq == h.reqs \o <<CrmRequest("POST", url, h.val, "email EQ " \o Text(args.email), CrmTimeout)>> IN
    IF h.raised THEN Raise(h.etype, h.msg, h.reqs, 1)
    ELSE IF ~Ok(c)
    THEN Ret(Failed("Error in contact deletion process: " \o RequestExceptionText(c, url)
                        \o Details(c)), rq, 1)
    ELSE IF c.total = 0
    THEN Ret(Failed("No contact found with email: " \o Text(args.email)), rq, 1)
    ELSE IF c.results = <<>> THEN Raise("IndexError", "list index out of range", rq, 1)
    ELSE LET d == delete_contact_by_id(e, [contact_id |-> Str(c.results[1])], hb2, c2) IN
         [d EXCEPT !.reqs = rq \o d.reqs, !.ntok = 1 + d.ntok]

update_contact_by_email(e, args, hb, c) ==                      \* contact.py:238-288
    LET url == ContactsUrl \o "/" \o Text(args.email) \o "?idProperty=email"
        h == get_headers(e, hb)
        rq == h.reqs \o <<CrmRequest("PATCH", url, h.val, "properties", CrmTimeout)>> IN
    IF h.raised THEN Raise(h.etype, h.msg, h.reqs, 1)
    ELSE IF args.properties[1] # "obj"                          \* properties.keys() of a non-mapping
    THEN Raise("AttributeError", "'" \o args.properties[1] \o "' object has no attribute 'keys'",
               h.reqs, 1)
    ELSE IF ~Ok(c)
    THEN Ret(Failed("Error updating HubSpot contact: " \o RequestExceptionText(c, url) \o Details(c)),
             rq, 1)
    ELSE Ret(Success([contact |-> Obj("contact")]), rq, 1)

search_contacts(e, args, hb, c) ==                              \* contact.py:306-362
    LET url == ContactsUrl \o "/search"
        crit(k) == IF ValTruthy(Arg(args, k, Str(""))) THEN k \o " EQ " \o Text(args[k]) \o ";" ELSE ""
        payload == crit("email") \o crit("firstname") \o crit("phone")
                   \o "limit=" \o Text(Arg(args, "limit", IntV("100")))
        h == get_headers(e, hb)
        rq == h.reqs \o <<CrmRequest("POST", url, h.val, payload, CrmTimeout)>> IN
    IF h.raised THEN Raise(h.etype, h.msg, h.reqs, 1)
    ELSE IF ~Ok(c)
    THEN Ret(Failed("Error searching contacts: " \o RequestExceptionText(c, url)), rq, 1)
    ELSE Ret(Success([total |-> IntV(ToString(c.total)), contacts |-> List(c.results)]), rq, 1)

get_contact_by_email(e, args, hb, c) ==                         \* contact.py:380-446
    LET url == ContactsUrl \o "/search"
        h == get_headers(e, hb)
        rq == h.reqs \o <<CrmRequest("POST", url, h.val, "email EQ " \o Text(args.email), CrmTimeout)>> IN
    IF h.raised THEN Raise(h.etype, h.msg, h.reqs, 1)
    ELSE IF ~Ok(c)
    THEN Ret(Failed("Error retrieving HubSpot contact: " \o RequestExceptionText(c, url)
                        \o Details(c)), rq, 1)
    ELSE IF c.total = 0
    THEN Ret(Failed("No contact found with email: " \o Text(args.email)), rq, 1)
    ELSE IF c.results = <<>> THEN Raise("IndexError", "list index out of range", rq, 1)
    ELSE Ret(Success([contact |-> Obj(c.results[1])]), rq, 1)

\* datetime.timestamp() of an aware datetime written YYYY-MM-DDTHH:MM:SS+00:00,
\* in whole seconds since 1970-01-01T00:00:00+00:00
Digits == "0123456789"
IsDigit(ch) == Contains(Digits, ch) /\ Len(ch) = 1
RECURSIVE Num(_)
Num(s) == IF s = "" THEN 0 ELSE 10 * Num(SubSeq(s, 1, Len(s) - 1)) + (IndexOf(Digits, SubSeq(s, Len(s), Len(s))) - 1)
DaysFromCivil(y0, m, d) ==
    LET y == IF m <= 2 THEN y0 - 1 ELSE y0
        era == y \div 400
        yoe == y - era * 400
        mp == IF m > 2 THEN m - 3 ELSE m + 9
        doy == (153 * mp + 2) \div 5 + d - 1
        doe == yoe * 365 + yoe \div 4 - yoe \div 100 + doy IN
    era * 146097 + doe - 719468
EpochSeconds(iso) ==
    DaysFromCivil(Num(SubSeq(iso, 1, 4)), Num(SubSeq(iso, 6, 7)), Num(SubSeq(iso, 9, 10))) * 86400
        + Num(SubSeq(iso, 12, 13)) * 3600 + Num(SubSeq(iso, 15, 16)) * 60 + Num(SubSeq(iso, 18, 19))
\* str(int(since.timestamp() * 1000))
timestamp_ms(since) ==                                          \* contact.py:486, 506
    LET s == EpochSeconds(since[2]) IN IF s = 0 THEN "0" ELSE ToString(s) \o "000"

get_recent_contacts(e, args, hb, c) ==                          \* contact.py:464-547
    LET url == ContactsUrl \o "/search"
        since == Arg(args, "since", Null)
        timestamp == IF ValTruthy(since) THEN timestamp_ms(since) ELSE None
        filter == IF timestamp \notin {None, "0"} THEN "lastmodifieddate GTE " \o timestamp \o ";" ELSE ""
        payload == filter \o "sort=-lastmodifieddate;limit=" \o Text(Arg(args, "limit", IntV("10")))
        h == get_headers(e, hb)
        rq == h.reqs \o <<CrmRequest("POST", url, h.val, payload, CrmTimeout)>> IN
    IF ValTruthy(since) /\ since[1] # "datetime"
    THEN Raise("AttributeError", "'" \o since[1] \o "' object has no attribute 'timestamp'", <<>>, 0)
    ELSE IF h.raised THEN Raise(h.etype, h.msg, h.reqs, 1)
    ELSE IF ~Ok(c)
    THEN Ret(Failed("Error retrieving recent contacts: " \o RequestExceptionText(c, url)
                        \o Details(c)), rq, 1)
    ELSE Ret(Success([total |-> IntV(ToString(c.total)), contacts |-> List(c.results)]), rq, 1)

create_contact(e, args, hb, c) ==                               \* contact.py:565-622
    LET url == ContactsUrl
        phone == Arg(args, "phone", Null)
        payload == "email=" \o Text(args.email) \o ";firstname=" \o Text(args.first_name)
                   \o ";lastname=" \o Text(args.last_name)
                   \o (IF ValTruthy(phone) THEN ";phone=" \o Text(phone) ELSE "")
        h == get_headers(e, hb)
        rq == h.reqs \o <<CrmRequest("POST", url, h.val, payload, CrmTimeout)>> IN
    IF h.raised THEN Raise(h.etype, h.msg, h.reqs, 1)
    ELSE IF ~Ok(c)
    THEN Ret(Failed("Error creating HubSpot contact: " \o RequestExceptionText(c, url) \o Details(c)),
             rq, 1)
    ELSE Ret(Success([contact |-> Obj("contact")]), rq, 1)

(***************************************************************************)
(* server.py: the dispatcher call_tool and the lazily built handler slots. *)
(***************************************************************************)
CompanyTools ==                        \* server.py:367-382
    {"create_company", "get_company_details", "update_company", "delete_company",
     "get_all_companies", "get_filtered_companies", "search_company_by_domain",
     "get_recent_companies"}
ContactTools ==                        \* server.py:384-410
    {"create_contact", "get_contact_by_email", "update_contact_by_email", "delete_contact_by_id",
     "delete_contact_by_email", "search_contacts", "get_all_contacts", "get_recent_contacts",
     "add_contact_to_list", "remove_contact_from_list"}
ToolNames == CompanyTools \cup ContactTools
list_tools ==                          \* server.py:118-358, the names of the Tool entries
    {"create_company", "get_company_details", "update_company", "delete_company",
     "get_all_companies", "get_filtered_companies", "search_company_by_domain",
     "get_recent_companies", "create_contact", "get_contact_by_email",
     "update_contact_by_email", "delete_contact_by_id", "delete_contact_by_email",
     "search_contacts", "get_all_contacts", "get_recent_contacts", "add_contact_to_list",
     "remove_contact_from_list"}

\* the slot whose property the branch of a tool name reads
ToolSlot(name) ==                      \* server.py:367-410
    CASE name \in CompanyTools \cup {"get_all_contacts"} -> "hubspot_client"
      [] name = "create_contact" -> "contact_creator"
      [] name = "get_contact_by_email" -> "contact_getter"
      [] name = "update_contact_by_email" -> "contact_updater"
      [] name \in {"delete_contact_by_id", "delete_contact_by_email"} -> "contact_deleter"
      [] name = "search_contacts" -> "contact_searcher"
      [] name = "get_recent_contacts" -> "recent_contacts_getter"
      [] name \in {"add_contact_to_list", "remove_contact_from_list"} -> "list_manager"
      [] OTHER -> None

\* the parameters of the callable a branch calls: required ones in order, then the defaulted ones
Sig(fname, required, optional) == [fname |-> fname, required |-> required, optional |-> optional]
Signature(name) ==
    CASE name = "create_company" ->                                          \* company.py:588-595
           Sig("create_company", <<"company_name">>, {"domain", "description", "phone", "website"})
      [] name = "get_company_details" -> Sig("HubSpotClient.get_company_details", <<"company_id">>, {})
      [] name = "update_company" ->                                          \* company.py:311-329
           Sig("HubSpotClient.update_company", <<"company_id">>, Range(UpdateFields))
      [] name = "delete_company" -> Sig("HubSpotClient.delete_company", <<"company_id">>, {})
      [] name = "get_all_companies" -> Sig("HubSpotClient.get_all_companies", <<>>, {})
      [] name = "get_filtered_companies" ->                                  \* company.py:158-164
           Sig("HubSpotClient.get_filtered_companies", <<>>,
               {"company_ids", "created_after", "created_before", "limit"})
      [] name = "search_company_by_domain" ->
           Sig("HubSpotClient.search_company_by_domain", <<"domain">>, {"limit"})
      [] name = "get_recent_companies" ->
           Sig("HubSpotClient.get_recent_companies", <<>>, {"sort_by", "limit"})
      [] name = "create_contact" ->                                          \* contact.py:565
           Sig("HubSpotContactCreator.create_contact", <<"email", "first_name", "last_name">>, {"phone"})
      [] name = "get_contact_by_email" -> Sig("HubSpotContactGetter.get_contact_by_email", <<"email">>, {})
      [] name = "update_contact_by_email" ->
           Sig("HubSpotContactUpdater.update_contact_by_email", <<"email", "properties">>, {})
      [] name = "delete_contact_by_id" ->
           Sig("HubSpotContactDeleter.delete_contact_by_id", <<"contact_id">>, {})
      [] name = "delete_contact_by_email" ->
           Sig("HubSpotContactDeleter.delete_contact_by_email", <<"email">>, {})
      [] name = "search_contacts" ->                                         \* contact.py:306
           Sig("HubSpotContactSearcher.search_contacts", <<>>, {"email", "firstname", "phone", "limit"})
      [] name = "get_recent_contacts" ->                                     \* contact.py:464-468
           Sig("HubSpotRecentContactsGetter.get_recent_contacts", <<>>, {"since", "limit"})
      [] name = "add_contact_to_list" ->
           Sig("HubSpotListManager.add_contact_to_list", <<"list_id", "contact_id">>, {})
      [] name = "remove_contact_from_list" ->
           Sig("HubSpotListManager.remove_contact_from_list", <<"list_id", "contact_id">>, {})

Quoted(names) == [i \in DOMAIN names |-> "'" \o names[i] \o "'"]
\* the TypeError text of f(**arguments) when the keywords do not fit f; "" when they fit
BindError(sig, args) ==
    LET unexpected == DOMAIN args \ (Range(sig.required) \cup sig.optional)
        missing == SelectSeq(sig.required, LAMBDA k : k \notin DOMAIN args)
        n == Len(missing) IN
    IF unexpected # {}
    THEN sig.fname \o "() got an unexpected keyword argument '"
             \o (CHOOSE k \in unexpected : TRUE) \o "'"
    ELSE IF n = 0 THEN ""
    ELSE IF n = 1 THEN sig.fname \o "() missing 1 required positional argument: '" \o missing[1] \o "'"
    ELSE sig.fname \o "() missing " \o ToString(n) \o " required positional arguments: "
             \o Join(", ", Quoted(SubSeq(missing, 1, n - 1)))
             \o (IF n > 2 THEN "," ELSE "") \o " and '" \o missing[n] \o "'"

\* the body a branch runs once its keywords are bound
Handler(name, e, args, b, c) ==        \* server.py:367-410
    CASE name = "create_company" -> create_company(e, args, b[1], c[1])
      [] name = "get_company_details" -> get_company_details(e, args, b[1], c[1])
      [] name = "update_company" -> update_company(e, args, b[1], c[1])
      [] name = "delete_company" -> delete_company(e, args, b[1], c[1])
      [] name = "get_all_companies" -> get_all_companies(e, args, b[1], c[1])
      [] name = "get_filtered_companies" -> get_filtered_companies(e, args, b[1], c[1])
      [] name = "search_company_by_domain" -> search_company_by_domain(e, args, b[1], c[1])
      [] name = "get_recent_companies" -> get_recent_companies(e, args, b[1], c[1])
      [] name = "create_contact" -> create_contact(e, args, b[1], c[1])
      [] name = "get_contact_by_email" -> get_contact_by_email(e, args, b[1], c[1])
      [] name = "update_contact_by_email" -> update_contact_by_email(e, args, b[1], c[1])
      [] name = "delete_contact_by_id" -> delete_contact_by_id(e, args, b[1], c[1])
      [] name = "delete_contact_by_email" -> delete_contact_by_email(e, args, b[1], c[1], b[2], c[2])
      [] name = "search_contacts" -> search_contacts(e, args, b[1], c[1])
      [] name = "get_recent_contacts" -> get_recent_contacts(e, args, b[1], c[1])
      [] name = "add_contact_to_list" -> add_contact_to_list(e, args, b[1], c[1])
      [] name = "remove_contact_from_list" -> remove_contact_from_list(e, args, b[1], c[1])

RECURSIVE replace(_, _, _)
replace(s, old, new) ==                \* str.replace for a one-character old
    IF s = "" THEN ""
    ELSE (IF SubSeq(s, 1, 1) = old THEN new ELSE SubSeq(s, 1, 1)) \o replace(SubSeq(s, 2, Len(s)), old, new)
\* the strings datetime.fromisoformat accepts, among those of the form
\* YYYY-MM-DDTHH:MM:SS+00:00; anything else raises ValueError
IsIso(s) ==
    /\ Len(s) = 25
    /\ \A i \in {1, 2, 3, 4, 6, 7, 9, 10, 12, 13, 15, 16, 18, 19} : IsDigit(SubSeq(s, i, i))
    /\ SubSeq(s, 5, 5) = "-" /\ SubSeq(s, 8, 8) = "-" /\ SubSeq(s, 11, 11) = "T"
    /\ SubSeq(s, 14, 14) = ":" /\ SubSeq(s, 17, 17) = ":" /\ SubSeq(s, 20, 25) = "+00:00"
    /\ Num(SubSeq(s, 6, 7)) \in 1..12 /\ Num(SubSeq(s, 9, 10)) \in 1..28
    /\ Num(SubSeq(s, 12, 13)) < 24 /\ Num(SubSeq(s, 15, 16)) < 60 /\ Num(SubSeq(s, 18, 19)) < 60

\* the get_recent_contacts branch rewrites arguments["since"] in place
convert_since(args) ==                 \* server.py:400-405
    LET since == Arg(args, "since", Null)
        iso == replace(since[2], "Z", "+00:00") IN
    IF ~ValTruthy(since) THEN [raised |-> FALSE, etype |-> "", msg |-> "", args |-> args]
    ELSE IF since[1] # "str"
    THEN [raised |-> TRUE, etype |-> "AttributeError",
          msg |-> "'" \o since[1] \o "' object has no attribute 'replace'", args |-> args]
    ELSE IF IsIso(iso)
    THEN [raised |-> FALSE, etype |-> "", msg |-> "", args |-> [args EXCEPT !.since = DateTime(iso)]]
    ELSE [raised |-> FALSE, etype |-> "", msg |-> "",
          args |-> [k \in DOMAIN args \ {"since"} |-> args[k]]]

\* json.dumps of a mapping: a datetime is written through default=str when
\* that is given and is a TypeError otherwise
HasDateTime(m) == \E k \in DOMAIN m : m[k][1] = "datetime"
str_datetime(v) == Str(replace(v[2], "T", " "))
Returned(body) == [outcome |-> "returned", body |-> body, etype |-> "", msg |-> ""]
Escaped(t, m) == [outcome |-> "raised", body |-> NoArgs, etype |-> t, msg |-> m]
success_response_wrapped(result) == Returned(Envelope(Obj("wrapped"), Null))
success_response(result) ==            \* server.py:414-416
    Returned([k \in DOMAIN result |-> IF result[k][1] = "datetime" THEN str_datetime(result[k])
                                      ELSE result[k]])
error_response_generic(name, arguments, text) ==
    Returned([error |-> Str("Tool execution failed"), tool |-> Str(name), arguments |-> arguments])
error_response(name, arguments, text) ==   \* server.py:418-426
    IF HasDateTime(arguments)
    THEN Escaped("TypeError", "Object of type datetime is not JSON serializable")
    ELSE Returned([error |-> Str(text), tool |-> Str(name), arguments |-> arguments])

NoConversion(args) == [raised |-> FALSE, etype |-> "", msg |-> "", args |-> args]

\* the branch of a name: the exception of the first step that fails, or
\* what the handler body does; built is the construction of the slot's
\* object and bind the TypeError text of the keywords ("" when they fit)
route(name, pre, built, bind, body) ==         \* server.py:367-412
    IF name \notin ToolNames THEN Raise("ValueError", "Unknown tool: " \o name, <<>>, 0)
    ELSE IF pre.raised THEN Raise(pre.etype, pre.msg, <<>>, 0)
    ELSE IF built.raised THEN Raise(built.etype, built.msg, built.reqs, built.ntok)
    ELSE IF name = "get_all_contacts"
    THEN Raise("AttributeError", "'HubSpotClient' object has no attribute 'get_all_contacts'",
               built.reqs, built.ntok)
    ELSE IF bind # "" THEN Raise("TypeError", bind, built.reqs, built.ntok)
    ELSE [body EXCEPT !.reqs = built.reqs \o body.reqs, !.ntok = built.ntok + body.ntok]

\* _create_company turns every exception into a returned {result, error}
create_company_wrapper(name, routed) ==        \* server.py:428-435
    IF name = "create_company" /\ routed.raised
    THEN Ret(Envelope(Null, Str(routed.msg)), routed.reqs, routed.ntok)
    ELSE routed

\* the end of call_tool: the handler's value or the caught exception is serialised
finish(name, args, sl, invoked, out) ==        \* server.py:414-426
    [resp |-> IF out.raised THEN error_response(name, args, out.msg) ELSE success_response(out.val),
     slots |-> sl, reqs |-> out.reqs, ntok |-> out.ntok, exc |-> out.etype,
     handlers |-> IF invoked
                  THEN <<[name |-> name, args |-> args, raised |-> out.raised,
                          val |-> IF out.raised THEN NoArgs ELSE out.val]>>
                  ELSE <<>>]

\* One invocation of call_tool: name and arguments come from the client, sl
\* is the slots on entry, b and c are the replies the broker and the CRM
\* give to the requests of this invocation, in order.
call_tool(name, arguments, sl, e, b, c) ==     \* server.py:360-435
    LET slot == ToolSlot(name)
        pre == IF name = "get_recent_contacts" THEN convert_since(arguments)
               ELSE NoConversion(arguments)
        \* HubSpotClient() asks for a token; the seven contact classes only store a URL
        constructing == slot = "hubspot_client" /\ sl[slot] = None
        built == IF constructing THEN get_access_token(e, b[1]) ELSE Ret("", <<>>, 0)
        sl2 == IF slot = None \/ pre.raised THEN sl
               ELSE IF slot # "hubspot_client" THEN [sl EXCEPT ![slot] = "built"]
               ELSE IF constructing /\ ~built.raised THEN [sl EXCEPT ![slot] = built.val]
               ELSE sl
        bind == BindError(Signature(name), pre.args)
        invoked == \/ name = "create_company"
                   \/ /\ name \in ToolNames \ {"get_all_contacts"}
                      /\ ~pre.raised /\ ~built.raised /\ bind = "" IN
    finish(name, pre.args, sl2, invoked,
           create_company_wrapper(name,
               route(name, pre, built, bind,
                     Handler(name, e, pre.args, IF constructing THEN Tail(b) ELSE b, c))))

\* how many token and CRM replies an invocation may consume
TokenCallsOf(name, sl) ==
    (IF ToolSlot(name) = "hubspot_client" /\ sl["hubspot_client"] = None THEN 1 ELSE 0)
    + (IF name = "delete_contact_by_email" THEN 2
       ELSE IF name \in ToolNames \ {"get_all_contacts"} THEN 1 ELSE 0)
CrmCallsOf(name) ==
    IF name = "delete_contact_by_email" THEN 2
    ELSE IF name \in ToolNames \ {"get_all_contacts"} THEN 1 ELSE 0

\* the inputs of the server specification
UnknownNames == {"get_all_deals", "create_deal"}
ServerEnvs == {Env({}, {}), Env({"HUBSPOT_ACCESS_TOKEN"}, {}), Env(Range(NangoVars), {}), Env(EnvVars, {})}
ServerBrokerReplies == {BrokerTransportFailure, BrokerOk("T1"), BrokerOk("T2")}
IsoZ == "2024-01-01T00:00:00Z"
Id == [company_id |-> Str("42")]
Mail == [email |-> Str("a@b.co")]
Bogus == [bogus |-> Str("x")]
ArgsOf(name) ==
    CASE name = "create_company" ->
           {[company_name |-> Str("Acme")], [company_name |-> Str("Acme"), domain |-> Str("acme.com")],
            NoArgs, Bogus}
      [] name \in {"get_company_details", "delete_company"} -> {Id, NoArgs, Id @@ Bogus}
      [] name = "update_company" ->
           {Id, Id @@ [name |-> Str("Acme")], Id @@ [industry |-> Str("software")],
            Id @@ [industry |-> Str("bogus")], Id @@ [employee_count |-> IntV("0")], NoArgs}
      [] name = "get_all_companies" -> {NoArgs, Bogus}
      [] name = "get_filtered_companies" ->
           {NoArgs, [created_after |-> Str("2024-01-01")],
            [company_ids |-> List(<<"42">>), limit |-> IntV("5")]}
      [] name = "search_company_by_domain" ->
           {[domain |-> Str("www.web.com")], [domain |-> Str("https://www.acme.com/about")],
            [domain |-> Str("www.example.com"), limit |-> IntV("5")], NoArgs}
      [] name = "get_recent_companies" ->
           {NoArgs, [sort_by |-> Str("hs_lastmodifieddate")], [sort_by |-> Str("name")]}
      [] name = "create_contact" ->
           {Mail @@ [first_name |-> Str("Ann"), last_name |-> Str("Lee")],
            Mail @@ [first_name |-> Str("Ann"), last_name |-> Str("Lee"), phone |-> Str("555")],
            Mail, NoArgs}
      [] name \in {"get_contact_by_email", "delete_contact_by_email"} -> {Mail, NoArgs}
      [] name = "update_contact_by_email" ->
           {Mail @@ [properties |-> Obj("props")], Mail @@ [properties |-> Str("x")], Mail}
      [] name = "delete_contact_by_id" -> {[contact_id |-> Str("101")], NoArgs}
      [] name = "search_contacts" ->
           {NoArgs, Mail, [firstname |-> Str("Ann"), limit |-> IntV("5")]}
      [] name = "get_all_contacts" -> {NoArgs, Bogus}
      [] name = "get_recent_contacts" ->
           {NoArgs, [since |-> Str(IsoZ)], [since |-> Str("1970-01-01T00:00:00Z")],
            [since |-> Str("yesterday")], [since |-> Str("")], [since |-> IntV("5")],
            [since |-> Str(IsoZ), limit |-> IntV("5")], [since |-> Str(IsoZ)] @@ Bogus}
      [] name \in {"add_contact_to_list", "remove_contact_from_list"} ->
           {[list_id |-> Str("7"), contact_id |-> Str("101")], [list_id |-> Str("7")]}
      [] OTHER -> {NoArgs, Id}

IsBrokerRequest(rq) == rq.dest = "broker"
CountBroker(rqs) == Cardinality({i \in DOMAIN rqs : IsBrokerRequest(rqs[i])})
\* what the first n get_access_token calls of an invocation returned, None for
\* a call that raised
TokensReturned(e, b, n) ==
    SubSeq([i \in DOMAIN b |-> LET t == get_access_token(e, b[i]) IN
                                  IF t.raised THEN None ELSE t.val], 1, n)
CountCrm(rqs) == Cardinality({i \in DOMAIN rqs : rqs[i].dest = "crm"})

\* The client invokes a tool: the whole of call_tool runs.
CallTool ==
    /\ phase = "idle" /\ calls < MaxCalls
    /\ \E name \in ToolNames \cup UnknownNames : \E arguments \in ArgsOf(name) :
         \E b \in [1..TokenCallsOf(name, slots) -> ServerBrokerReplies] :
           \E c \in [1..CrmCallsOf(name) -> CrmReplies] :
             \E r \in {call_tool(name, arguments, slots, env, b, c)} :
               /\ slots' = r.slots
               /\ phase' = "returned"
               /\ call' = [name |-> name, arguments |-> arguments, exc |-> r.exc,
                                   replies |-> SubSeq(c, 1, CountCrm(r.reqs)),
                                   tokens |-> TokensReturned(env, b, r.ntok)]
               /\ resp' = r.resp
               /\ reqs' = r.reqs
               /\ handlerCalls' = r.handlers
               /\ calls' = calls + 1
               /\ brokerCalls' = brokerCalls + CountBroker(r.reqs)
               /\ tokenCalls' = tokenCalls + r.ntok
               /\ obtained' = (obtained \/ \E i \in 1..r.ntok :
                                               FromBroker(get_access_token(env, b[i]), b[i]))
    /\ UNCHANGED <<env, tokenVars, concVars, pageVars>>

Respond_forgetting ==
    /\ phase = "returned"
    /\ phase' = "idle" /\ call' = NoCall /\ resp' = NoResp /\ reqs' = <<>> /\ handlerCalls' = <<>>
    /\ slots' = [s \in SlotNames |-> None]
    /\ UNCHANGED <<env, calls, brokerCalls, tokenCalls, obtained, tokenVars, concVars, pageVars>>
\* The framework has sent the outcome of the invocation to the client and
\* waits for the next request.
Respond ==
    /\ phase = "returned"
    /\ phase' = "idle" /\ call' = NoCall /\ resp' = NoResp /\ reqs' = <<>> /\ handlerCalls' = <<>>
    /\ UNCHANGED <<env, slots, calls, brokerCalls, tokenCalls, obtained, tokenVars, concVars, pageVars>>

Init ==
    /\ env \in ServerEnvs
    /\ ServerIdle /\ NetIdle /\ TokenIdle /\ ConcIdle /\ PageIdle
Next == CallTool \/ Respond
Spec == Init /\ [][Next]_vars

(***************************************************************************)
(* SpecList: the two "list all" tools of the catalog invoked against a     *)
(* remote listing of one or more pages.  The handler receives the reply to *)
(* its one request, the first page; the paging part of that reply is       *)
(* never read (company.py:558, contact.py:660).                            *)
(***************************************************************************)
ListAllTools == {"get_all_companies", "get_all_contacts"}
FirstPageReply(l) ==                   \* company.py:555-558
    CrmReply("http", l[1].status, Len(l[1].results), l[1].results)

ListAll ==                             \* server.py:375-376, 396-397
    /\ phase = "idle" /\ calls < MaxCalls
    /\ \E name \in ListAllTools :
         \E b \in [1..TokenCallsOf(name, slots) -> ServerBrokerReplies] :
           \E c \in [1..CrmCallsOf(name) -> {FirstPageReply(listing)}] :
             \E r \in {call_tool(name, NoArgs, slots, env, b, c)} :
               /\ slots' = r.slots
               /\ phase' = "returned"
               /\ call' = [name |-> name, arguments |-> NoArgs, exc |-> r.exc,
                                   replies |-> SubSeq(c, 1, CountCrm(r.reqs)),
                                   tokens |-> TokensReturned(env, b, r.ntok)]
               /\ resp' = r.resp
               /\ reqs' = r.reqs
               /\ handlerCalls' = r.handlers
               /\ calls' = calls + 1
               /\ brokerCalls' = brokerCalls + CountBroker(r.reqs)
               /\ tokenCalls' = tokenCalls + r.ntok
               /\ obtained' = (obtained \/ \E i \in 1..r.ntok :
                                               FromBroker(get_access_token(env, b[i]), b[i]))
    /\ UNCHANGED <<env, tokenVars, concVars, pageVars>>

InitList ==
    /\ env \in ServerEnvs
    /\ listing \in Listings
    /\ idiom = "" /\ ppc = "off" /\ cursor = None /\ acc = <<>> /\ pageReqs = <<>> /\ pres = NoPage
    /\ ServerIdle /\ NetIdle /\ TokenIdle /\ ConcIdle
NextList == ListAll \/ Respond
SpecList == InitList /\ [][NextList]_vars

(***************************************************************************)
(* Claims about the credential resolver (checked under SpecToken).         *)
(***************************************************************************)
\* a configuration value counts as present when it is set and not empty
ConfigComplete(e) == \A v \in Range(NangoVars) : Truthy(e[v])
StaticConfigured(e) == Truthy(e["HUBSPOT_ACCESS_TOKEN"])
\* the broker path yields no token: a value is absent, the request fails,
\* or the response carries no credentials.access_token
NoBrokerToken(e, reply) ==
    \/ ~ConfigComplete(e)
    \/ reply.kind = "transport"
    \/ reply.status >= 400
    \/ reply.creds # "object"
    \/ ~Truthy(reply.token)

\* C7: with a static token S configured, whenever the broker path yields no
\* token (a configuration value absent, the request failing, or no
\* credentials.access_token in the reply) get_access_token returns S.
C7_StaticFallback ==
    (tok.called /\ StaticConfigured(env) /\ NoBrokerToken(env, tok.reply))
        => (~tok.out.raised /\ tok.out.val = env["HUBSPOT_ACCESS_TOKEN"])
C7_Witness ==
    /\ tok.called /\ StaticConfigured(env) /\ ConfigComplete(env)
    /\ tok.reply = BrokerOk(None)
    /\ tok.out.val = "S"

\* C8: with all four broker values present and a broker reply carrying
\* credentials.access_token = T, get_access_token returns T, also when a
\* static token is configured; the static token is only returned when the
\* broker path yielded no token.
C8_BrokerFirst ==
    /\ (tok.called /\ ~NoBrokerToken(env, tok.reply))
           => (~tok.out.raised /\ tok.out.val = tok.reply.token)
    /\ (tok.called /\ ~tok.out.raised /\ StaticConfigured(env)
           /\ tok.out.val = env["HUBSPOT_ACCESS_TOKEN"])
           => NoBrokerToken(env, tok.reply)
C8_Witness ==
    /\ tok.called /\ StaticConfigured(env) /\ ConfigComplete(env)
    /\ tok.reply = BrokerOk("T1")
    /\ tok.out.val = "T1"

\* C9: with no static token and no token from the broker path,
\* get_access_token raises, and the error text names exactly the broker
\* configuration values that are absent (unset or empty).
C9_CredentialError ==
    (tok.called /\ ~StaticConfigured(env) /\ NoBrokerToken(env, tok.reply))
        => /\ tok.out.raised
           /\ tok.out.etype = "ValueError"
           /\ \A v \in Range(NangoVars) : Contains(tok.out.msg, v) <=> ~Truthy(env[v])
C9_Witness ==
    /\ tok.called /\ tok.out.raised
    /\ env["HUBSPOT_ACCESS_TOKEN"] = None
    /\ env["NANGO_CONNECTION_ID"] = "" /\ env["NANGO_SECRET_KEY"] = None
    /\ Truthy(env["NANGO_BASE_URL"]) /\ Truthy(env["NANGO_INTEGRATION_ID"])
    /\ tok.out.msg = "Failed to get access token: Missing required environment variables: "
                        \o "NANGO_CONNECTION_ID, NANGO_SECRET_KEY"

(***************************************************************************)
(* Claims about concurrent callers (checked under SpecConc).               *)
(***************************************************************************)
Done == {c \in Callers : cpc[c] = "done"}

\* C6 as stated: among cold-start callers exactly one performs the broker
\* round trip and the others receive that result, so no interleaving
\* produces more than one broker request.
C6_Original ==
    /\ brokerCalls <= 1
    /\ \A c, d \in Done : (~cres[c].raised /\ ~cres[d].raised) => cres[c].val = cres[d].val

\* C6 amended: get_access_token shares nothing between callers.  With a
\* complete broker configuration every caller sends its own broker request
\* (k callers past the request, k requests) and returns the token of its own
\* reply; with an incomplete one no caller sends any.
C6_EachCallerAsksBroker ==
    /\ ConfigComplete(env) => brokerCalls = Cardinality({c \in Callers : cpc[c] # "start"})
    /\ ~ConfigComplete(env) => brokerCalls = 0
    /\ \A c \in Done : ~NoBrokerToken(env, creply[c]) =>
           (~cres[c].raised /\ cres[c].val = creply[c].token)
C6_Witness ==
    /\ ConfigComplete(env)
    /\ Done = Callers
    /\ brokerCalls = Cardinality(Callers) /\ brokerCalls > 1
    /\ cres[1].val = "T1" /\ cres[2].val = "T2"

(***************************************************************************)
(* Claims about the pagination loops (checked under SpecPage).             *)
(***************************************************************************)
RECURSIVE Concat(_)
Concat(pages) == IF pages = <<>> THEN <<>> ELSE Head(pages).results \o Concat(Tail(pages))

\* a listing of n pages with cursors c1 .. c(n-1) and then none: every page
\* is served with status 200, every page but the last issues a non-empty
\* cursor no earlier page issued, and the last page issues none
ProperListing(l) ==
    /\ \A i \in 1..Len(l) : l[i].status = 200
    /\ \A i \in 1..(Len(l) - 1) : Truthy(l[i].next)
    /\ \A i, j \in 1..(Len(l) - 1) : i # j => l[i].next # l[j].next
    /\ l[Len(l)].next = None
Completed == ppc = "done" /\ pageReqs # <<>> /\ ~pres.raised /\ pres.error = Null

\* C10: on a listing of n pages with cursors c1 .. c(n-1) and then none, a
\* loop that is served every page issues exactly n page requests, the first
\* with no cursor and each later one addressing the cursor the page before
\* it returned, and returns the items of all pages in page order.
C10_FollowsCursors ==
    (ProperListing(listing) /\ Completed) =>
        /\ Len(pageReqs) = Len(listing)
        /\ Addressed(idiom, pageReqs[1]) = None
        /\ \A i \in 2..Len(pageReqs) : Addressed(idiom, pageReqs[i]) = listing[i - 1].next
        /\ pres.result = List(Concat(listing))
C10_WitnessAfter ==
    /\ ProperListing(listing) /\ Completed /\ idiom = "after"
    /\ Len(listing) = 3 /\ Len(pageReqs) = 3
    /\ pres.result = List(<<"p1.1", "p1.2", "p2.1", "p2.2", "p3.1", "p3.2">>)

\* the page the remote served to the k-th page request
ServedTo(k) == Server(listing, Addressed(idiom, pageReqs[k]))

\* C11 as stated: when two consecutive pages carry the same cursor the list
\* operation stops with a pagination error instead of requesting further
\* pages, so no page request follows two consecutive pages that returned
\* the same cursor (get_all_deals, get_deals_by_filters, get_engagements).
C11_StallDetected ==
    \A k \in 2..(Len(pageReqs) - 1) :
        ~(ServedTo(k).next # None /\ ServedTo(k - 1).next = ServedTo(k).next)

(***************************************************************************)
(* Claims about direct get_access_token calls in sequence (SpecToken).     *)
(***************************************************************************)
\* C5 as stated: once a call has obtained a token from the broker, later
\* calls are served from a cache, so no later step adds a broker request.
C5_Original == [][obtained => brokerCalls' = brokerCalls]_vars

\* C5 amended: get_access_token keeps nothing between calls.  With a
\* complete broker configuration every call sends a broker request, before
\* and after a success alike, so broker requests equal calls; with an
\* incomplete one no call sends any.
C5_EveryCallAsksBroker ==
    /\ ConfigComplete(env) => brokerCalls = tokenCalls
    /\ ~ConfigComplete(env) => brokerCalls = 0
C5_Witness ==
    /\ obtained /\ tokenCalls = 3 /\ brokerCalls = 3
    /\ FromBroker(tok.out, tok.reply) /\ tok.out.val = "T2"

(***************************************************************************)
(* Claims about the dispatcher (checked under Spec).                       *)
(***************************************************************************)
Field(body, k) == IF k \in DOMAIN body THEN body[k] ELSE Null    \* an absent key reads as null
NonEmptyStr(v) == v[1] = "str" /\ v[2] # ""
Answered == phase = "returned" /\ resp.outcome = "returned"
HandlerReturned == phase = "returned" /\ handlerCalls # <<>> /\ ~handlerCalls[1].raised
\* a returned mapping nested as one JSON value
KeyOrder == <<"result", "error", "details", "status", "message", "response", "contact", "total", "contacts">>
RECURSIVE NestedFrom(_, _)
NestedFrom(val, i) ==
    IF i > Len(KeyOrder) THEN <<>>
    ELSE (IF KeyOrder[i] \in DOMAIN val THEN <<KeyOrder[i]>> \o val[KeyOrder[i]] ELSE <<>>)
             \o NestedFrom(val, i + 1)
Nested(val) == <<"dict">> \o NestedFrom(val, 1)

\* C1 as stated: call_tool never raises; whenever an exception occurs inside
\* it (credential failure, transport failure, rejection, bad or unexpected
\* arguments, programming error) it returns a response whose result is null
\* and whose error is a non-empty string, for every catalog operation,
\* get_recent_contacts with a parseable since included.
C1_NeverRaises ==
    phase = "returned" =>
        /\ resp.outcome = "returned"
        /\ call.exc # "" => (Field(resp.body, "result") = Null /\ NonEmptyStr(Field(resp.body, "error")))

\* C2 as stated: in every response call_tool returns exactly one of result
\* and error is non-null.
C2_Original ==
    Answered => ((Field(resp.body, "result") # Null) # (Field(resp.body, "error") # Null))

\* C2 amended: in every response call_tool returns, result and error are
\* never both non-null; both are null (absent) exactly in the successes of
\* the handlers that report through a status field, whose responses read
\* {status: "success", ...} and carry neither field.
C2_AtMostOne ==
    Answered =>
        /\ ~(Field(resp.body, "result") # Null /\ Field(resp.body, "error") # Null)
        /\ (Field(resp.body, "result") = Null /\ Field(resp.body, "error") = Null)
               <=> Field(resp.body, "status") = Str("success")
C2_Witness ==
    /\ Answered /\ call.name = "add_contact_to_list"
    /\ Field(resp.body, "status") = Str("success")
    /\ Field(resp.body, "result") = Null /\ Field(resp.body, "error") = Null

\* C3: for a name outside the catalog call_tool returns a response whose
\* result is null and whose error is exactly "Unknown tool: <name>", and the
\* invocation sends no request, neither to the broker nor to the CRM.
C3_UnknownTool ==
    (phase = "returned" /\ call.name \notin ToolNames) =>
        /\ resp.outcome = "returned"
        /\ Field(resp.body, "result") = Null
        /\ Field(resp.body, "error") = Str("Unknown tool: " \o call.name)
        /\ reqs = <<>> /\ handlerCalls = <<>>
C3_Witness ==
    /\ phase = "returned" /\ call.name = "get_all_deals" /\ call.arguments = Id
    /\ resp.body.error = Str("Unknown tool: get_all_deals") /\ calls = 2 /\ brokerCalls > 0

\* C4 as stated: when the handler returns normally, the response is the
\* envelope {result: <the handler's return value>, error: null}.
C4_Original ==
    HandlerReturned =>
        /\ resp.outcome = "returned"
        /\ DOMAIN resp.body = {"result", "error"}
        /\ resp.body.error = Null
        /\ resp.body.result = Nested(handlerCalls[1].val)

\* C4 amended: when the handler returns normally, the response is the
\* handler's return value itself, serialised without any wrapping: a
\* {result, error} mapping stays that mapping and a {status, ...} mapping
\* stays that mapping.
C4_ReturnsHandlerValue ==
    HandlerReturned => (resp.outcome = "returned" /\ resp.body = handlerCalls[1].val)
C4_Witness ==
    /\ HandlerReturned /\ call.name = "search_contacts"
    /\ resp.body = [status |-> Str("success"), total |-> IntV("1"), contacts |-> List(<<"101">>)]

(***************************************************************************)
(* Claims about the "list all" tools (checked under SpecList).             *)
(***************************************************************************)
CrmRequests == SelectSeq(reqs, LAMBDA rq : rq.dest = "crm")

\* C12 as stated: get_all_companies and get_all_contacts follow the paging
\* cursor, so on a listing of several pages, each served with status 200,
\* and with a usable token, the response carries the items of every page.
C12_ListAllFollowsCursor ==
    (/\ phase = "returned" /\ call.name \in ListAllTools
     /\ StaticConfigured(env)
     /\ ProperListing(listing) /\ Len(listing) > 1)
        => /\ resp.outcome = "returned"
           /\ Field(resp.body, "result") = List(Concat(listing))

(***************************************************************************)
(* Further claims about the dispatcher and the handlers (under Spec).      *)
(***************************************************************************)
BrokerRequests == SelectSeq(reqs, LAMBDA rq : rq.dest = "broker")
Invoked(name) == phase = "returned" /\ call.name = name
NoFieldsText == "No fields provided for update"
CredentialText == "Failed to get access token: "

BareHost(d) ==
    LET i == IndexOf(d, "://")
        rest == IF i = 0 THEN d ELSE SubSeq(d, i + 3, Len(d))
        j == IndexOf(rest, "/")
        host == IF j = 0 THEN rest ELSE SubSeq(rest, 1, j - 1) IN
    IF Len(host) >= 4 /\ SubSeq(host, 1, 4) = "www." THEN SubSeq(host, 5, Len(host)) ELSE host

\* C14 as stated: the value search_company_by_domain puts in the domain
\* filter of its CRM request is the bare host name of the input, for every
\* input ("www.example.com" gives "example.com").
C14_BareHostInFilter ==
    Invoked("search_company_by_domain") =>
        \A i \in DOMAIN reqs :
            reqs[i].dest = "crm" =>
                reqs[i].payload = "domain EQ " \o BareHost(Text(call.arguments.domain))
                                      \o ";limit=" \o Text(Arg(call.arguments, "limit", IntV("10")))

InvalidSortBy ==
    /\ Invoked("get_recent_companies") /\ "sort_by" \in DOMAIN call.arguments
    /\ call.arguments.sort_by \notin {Str("createdate"), Str("hs_lastmodifieddate")}
InvalidIndustry ==
    /\ Invoked("update_company") /\ "industry" \in DOMAIN call.arguments
    /\ strip(upper(Text(call.arguments.industry))) \notin VALID_INDUSTRIES

\* C15 as stated: an invalid sort_by given to get_recent_companies and an
\* invalid industry given to update_company each produce an error response
\* whose error is the validation message, and no request, to the broker or
\* to the CRM, has been issued when that error is returned.
C15_ValidationBeforeNetwork ==
    /\ InvalidSortBy =>
           /\ resp.outcome = "returned" /\ reqs = <<>>
           /\ Field(resp.body, "error")
                  = Str("Invalid sort_by value. Use 'createdate' or 'hs_lastmodifieddate'.")
    /\ InvalidIndustry =>
           /\ resp.outcome = "returned" /\ reqs = <<>>
           /\ NonEmptyStr(Field(resp.body, "error"))
           /\ Contains(Field(resp.body, "error")[2], "Invalid industry value: '"
                           \o Text(call.arguments.industry) \o "'")

\* an environment in which no call can resolve a token: no static token and
\* a broker configuration that is not complete
NoTokenSource(e) == ~StaticConfigured(e) /\ ~ConfigComplete(e)
\* the invocation reaches a get_access_token call: the tools of the client
\* object resolve one when the object is built, the other tools once their
\* keywords are converted and bound
NeedsToken ==
    /\ phase = "returned" /\ call.name \in ToolNames
    /\ \/ ToolSlot(call.name) = "hubspot_client"
       \/ LET pre == IF call.name = "get_recent_contacts" THEN convert_since(call.arguments)
                      ELSE NoConversion(call.arguments) IN
          ~pre.raised /\ BindError(Signature(call.name), pre.args) = ""

\* C16 as stated: while no token source is usable, every catalog operation
\* that needs a token returns an error response whose error text reports
\* the credential failure, and sends no request to the CRM.
C16_CredentialFailureReported ==
    (NoTokenSource(env) /\ NeedsToken) =>
        /\ resp.outcome = "returned"
        /\ CrmRequests = <<>>
        /\ NonEmptyStr(Field(resp.body, "error"))
        /\ Contains(Field(resp.body, "error")[2], CredentialText)

\* the tokens get_access_token can return in environment e
TokensOf(e) ==
    {get_access_token(e, b).val : b \in {x \in ServerBrokerReplies : ~get_access_token(e, x).raised}}

\* C17: every request sent to the CRM carries "Authorization: Bearer <t>"
\* with t a token get_access_token returns, and the JSON content type; when
\* the broker is configured a token call (its broker request) precedes the
\* request within the invocation.
C17_BearerOnEveryRequest ==
    \A i \in DOMAIN reqs :
        reqs[i].dest = "crm" =>
            /\ reqs[i].content_type = JsonContentType
            /\ \E t \in TokensOf(env) : Truthy(t) /\ reqs[i].auth = "Bearer " \o t
            /\ ConfigComplete(env) => \E j \in 1..(i - 1) : IsBrokerRequest(reqs[j])
C17_Witness ==
    /\ phase = "returned" /\ Len(CrmRequests) > 1 /\ ConfigComplete(env)
    /\ CrmRequests[1].auth # CrmRequests[2].auth

\* C18 as stated: an invocation with a catalog name invokes exactly one
\* handler, the one of that name, exactly once, and the handler receives
\* every key of the arguments mapping the caller supplied.
C18_OneHandlerAllArguments ==
    (phase = "returned" /\ call.name \in ToolNames) =>
        /\ Len(handlerCalls) = 1
        /\ handlerCalls[1].name = call.name
        /\ DOMAIN call.arguments \subseteq DOMAIN handlerCalls[1].args

\* the error text of the response, "" when the response has none
ErrorText ==
    IF Answered /\ NonEmptyStr(Field(resp.body, "error")) THEN Field(resp.body, "error")[2] ELSE ""

\* C19 as stated: list_tools advertises exactly the names call_tool routes,
\* and no invocation of an advertised name ends in "Unknown tool" or in the
\* error of a method missing on the object the name is routed to.
C19_AdvertisedReachHandler ==
    /\ list_tools = ToolNames
    /\ (phase = "returned" /\ call.name \in list_tools) =>
           /\ ~Contains(ErrorText, "Unknown tool")
           /\ ~Contains(ErrorText, "object has no attribute '" \o call.name \o "'")

\* the i-th request the invocation sent to the CRM failed
FailedAt(i) == i \in DOMAIN call.replies /\ ~Ok(call.replies[i])
\* what identifies the failure in a text: the transport error, or the status
FailureText(c) == IF c.kind = "transport" THEN TransportText ELSE ToString(c.status)

\* C20 as stated: no request of an invocation is sent twice, a failed
\* request (transport failure or error status) is the last request of the
\* invocation, and the response carries an error that reports the failure.
C20_NoRetryFailureSurfaced ==
    phase = "returned" =>
        /\ \A i, j \in DOMAIN CrmRequests : i # j => CrmRequests[i] # CrmRequests[j]
        /\ \A i \in DOMAIN call.replies :
               FailedAt(i) =>
                   /\ i = Len(CrmRequests)
                   /\ Answered
                   /\ Contains(ErrorText, FailureText(call.replies[i]))

\* the i-th request the invocation sent to the CRM was answered with a status
\* outside 200..299
NonSuccessAt(i) ==
    /\ i \in DOMAIN call.replies /\ call.replies[i].kind = "http"
    /\ call.replies[i].status \notin 200..299

\* C21 as stated: when the CRM answers a request of a catalog operation with
\* a status outside 200..299, the error string of the response contains that
\* status code.
C21_StatusInError ==
    (phase = "returned" /\ call.name \in ToolNames) =>
        \A i \in DOMAIN call.replies :
            NonSuccessAt(i) => Contains(ErrorText, ToString(call.replies[i].status))

\* C22 as stated: every request of an invocation, to the broker and to the
\* CRM, is issued with a timeout.
C22_EveryRequestBounded ==
    \A i \in DOMAIN reqs : reqs[i].timeout # NoTimeout /\ reqs[i].timeout > 0

\* the server as its constructor leaves it: no handler object, no token
\* resolved, no request sent
Constructed ==
    /\ \A s \in SlotNames : slots[s] = None
    /\ tokenCalls = 0 /\ brokerCalls = 0 /\ reqs = <<>>
\* slot s is filled by this step
Created(s) == slots[s] = None /\ slots'[s] # None

\* C23: under every credential configuration the constructed server holds
\* no handler object and has resolved no token and sent no request; a handler
\* object is created only by an invocation of an operation routed to its slot.
C23_LazyConstruction ==
    /\ [](calls = 0 => Constructed)
    /\ [][\A s \in SlotNames :
             Created(s) => (phase' = "returned" /\ ToolSlot(call'.name) = s)]_vars
C23_Witness ==
    /\ env = Env(EnvVars, {}) /\ phase = "returned" /\ call.name = "create_contact"
    /\ slots["contact_creator"] # None
    /\ \A s \in SlotNames \ {"contact_creator"} : slots[s] = None

\* the invocation sent at least one request to the CRM and every one of them
\* was answered with a status in 200..299
CrmAnswered2xx ==
    /\ call.replies # <<>>
    /\ \A i \in DOMAIN call.replies :
           call.replies[i].kind = "http" /\ call.replies[i].status \in 200..299
EnvelopeTools ==
    {"delete_company", "get_company_details", "get_filtered_companies", "get_all_companies",
     "update_company"}

\* C24 as stated: when the CRM answers with a 2xx status, delete_company,
\* get_company_details, get_filtered_companies, get_all_companies and
\* update_company (with at least one field given) answer a non-null result
\* with error null.
C24_SuccessDelivered ==
    (/\ phase = "returned" /\ call.name \in EnvelopeTools /\ CrmAnswered2xx
     /\ call.name = "update_company" =>
            \E k \in Range(UpdateFields) : UpdateGiven(call.arguments, k)) =>
        /\ Answered
        /\ Field(resp.body, "result") # Null
        /\ Field(resp.body, "error") = Null

IsDelete(rq) == rq.dest = "crm" /\ rq.method = "DELETE"
IsSearch(rq) == rq.dest = "crm" /\ rq.method = "POST" /\ rq.url = ContactsUrl \o "/search"
\* the answer to the email search: a failure, or a total of zero
SearchFound(c) == Ok(c) /\ c.total # 0 /\ c.results # <<>>
SearchEmpty(c) == ~Ok(c) \/ c.total = 0

\* C25: delete_contact_by_email sends the DELETE only after the search was
\* answered successfully with a match, and to the id of the first match;
\* when the search request fails or reports a total of zero, no DELETE is
\* sent and the result has status "failed" and an error text.
C25_DeleteAfterMatch ==
    Invoked("delete_contact_by_email") =>
        /\ \A j \in DOMAIN CrmRequests :
               IsDelete(CrmRequests[j]) =>
                   /\ j = 2 /\ IsSearch(CrmRequests[1])
                   /\ SearchFound(call.replies[1])
                   /\ CrmRequests[j].url = ContactsUrl \o "/" \o call.replies[1].results[1]
        /\ (call.replies # <<>> /\ SearchEmpty(call.replies[1])) =>
               /\ Len(CrmRequests) = 1 /\ IsSearch(CrmRequests[1])
               /\ Answered
               /\ Field(resp.body, "status") = Str("failed")
               /\ NonEmptyStr(Field(resp.body, "error"))
C25_Witness ==
    /\ Invoked("delete_contact_by_email") /\ Len(CrmRequests) = 2
    /\ IsDelete(CrmRequests[2]) /\ CrmRequests[2].url = ContactsUrl \o "/101"

\* the since argument of the invocation is a non-empty string that parses /
\* does not parse as an ISO date-time
SinceGiven == "since" \in DOMAIN call.arguments /\ NonEmptyStr(call.arguments.since)
SinceParses == SinceGiven /\ IsIso(replace(call.arguments.since[2], "Z", "+00:00"))
SinceUnparseable == SinceGiven /\ ~IsIso(replace(call.arguments.since[2], "Z", "+00:00"))
\* milliseconds since the epoch, as decimal text
EpochMillis(iso) == IF EpochSeconds(iso) = 0 THEN "0" ELSE ToString(EpochSeconds(iso)) \o "000"
TimeFilter == "lastmodifieddate GTE "

\* C26 as stated: the search request of get_recent_contacts carries the
\* filter "lastmodifieddate >= <since in epoch milliseconds>" when since
\* parses; when since does not parse the handler runs without it, the
\* request carries no time filter and the response reports no error.
C26_SinceFilter ==
    (Invoked("get_recent_contacts") /\ Len(CrmRequests) = 1) =>
        /\ SinceParses =>
               Contains(CrmRequests[1].payload,
                        TimeFilter \o EpochMillis(replace(call.arguments.since[2], "Z", "+00:00")) \o ";")
        /\ SinceUnparseable =>
               /\ ~Contains(CrmRequests[1].payload, TimeFilter)
               /\ handlerCalls # <<>> /\ "since" \notin DOMAIN handlerCalls[1].args
               /\ Ok(call.replies[1]) => (Answered /\ Field(resp.body, "error") = Null)

\* the position in reqs of the k-th broker request and of the j-th CRM request
RECURSIVE NthWhere(_, _, _, _)
NthWhere(rqs, dest, n, from) ==
    IF from > Len(rqs) THEN 0
    ELSE IF rqs[from].dest = dest
    THEN (IF n = 1 THEN from ELSE NthWhere(rqs, dest, n - 1, from + 1))
    ELSE NthWhere(rqs, dest, n, from + 1)
\* the k-th token call of the invocation returned t before request i was sent
\* (with a configured broker every token call leaves a broker request)
FreshFor(i, k, t) ==
    /\ k \in DOMAIN call.tokens /\ call.tokens[k] = t /\ Truthy(t)
    /\ ConfigComplete(env) => (NthWhere(reqs, "broker", k, 1) \in 1..(i - 1))

\* C27: the token of every CRM request is one a get_access_token call of
\* the same invocation returned before the request was sent; a token stored
\* in the client object that no such call returned is never sent.
C27_TokenFreshness ==
    phase = "returned" =>
        \A i \in DOMAIN reqs :
            reqs[i].dest = "crm" =>
                /\ \E k \in DOMAIN call.tokens : FreshFor(i, k, SubSeq(reqs[i].auth, 8, Len(reqs[i].auth)))
                /\ (\A k \in DOMAIN call.tokens : call.tokens[k] # slots["hubspot_client"])
                       => reqs[i].auth # "Bearer " \o slots["hubspot_client"]
C27_Witness ==
    /\ phase = "returned" /\ call.name = "search_company_by_domain"
    /\ slots["hubspot_client"] = "T1" /\ call.tokens = <<"T2">>
    /\ Len(CrmRequests) = 1 /\ CrmRequests[1].auth = "Bearer T2"

\* this step is an invocation routed to the client object while its slot is empty
ColdClientCall ==
    /\ phase' = "returned" /\ ToolSlot(call'.name) = "hubspot_client"
    /\ slots["hubspot_client"] = None

\* C28: a populated slot keeps its object for ever (populated at most once,
\* never emptied, never rebuilt); an invocation routed to the empty slot of
\* the client object attempts the construction, which fills the slot when
\* its token call succeeds and leaves it empty when that call fails.
\* call_tool contains no await, so invocations run one at a time.
C28_SlotsPopulatedOnce ==
    [][/\ \A s \in SlotNames : slots[s] # None => slots'[s] = slots[s]
       /\ ColdClientCall =>
              /\ call'.tokens # <<>>
              /\ slots'["hubspot_client"] = call'.tokens[1]]_vars
C28_Witness ==
    /\ phase = "returned" /\ calls = 2 /\ ToolSlot(call.name) = "hubspot_client"
    /\ tokenCalls = 2 /\ brokerCalls = 2
    /\ call.tokens = <<None>> /\ slots["hubspot_client"] = None

\* the listing operation has ended on a page after the first that the CRM
\* answered with a status that is not OK
FailedMidListing ==
    /\ ppc = "done" /\ Len(pageReqs) >= 2 /\ acc # <<>>
    /\ Server(listing, Addressed(idiom, pageReqs[Len(pageReqs)])).status >= 400

\* C29 as stated: when a page after the first is answered with a non-OK
\* status, get_all_deals, get_deals_by_filters and get_engagements return
\* result null with an error, and not the items of the earlier pages.
C29_NoPartialResult ==
    FailedMidListing =>
        /\ ~pres.raised
        /\ pres.result = Null
        /\ NonEmptyStr(pres.error)

\* the four values the broker request is built from
BrokerConfig ==
    {"NANGO_CONNECTION_ID", "NANGO_INTEGRATION_ID", "NANGO_BASE_URL", "NANGO_SECRET_KEY"}
AbsentOrEmpty(v) == env[v] = None \/ env[v] = ""

\* C30: when one of the four broker configuration values is absent or
\* empty no request is ever sent to the broker; a broker request carries the
\* four values of a complete configuration.
C30_NoBrokerRequestUnconfigured ==
    /\ (\E v \in BrokerConfig : AbsentOrEmpty(v)) => (reqs = <<>> /\ brokerCalls = 0)
    /\ \A i \in DOMAIN reqs :
           reqs[i].dest = "broker" =>
               /\ \A v \in BrokerConfig : ~AbsentOrEmpty(v)
               /\ reqs[i].url = env["NANGO_BASE_URL"] \o "/connection/" \o env["NANGO_CONNECTION_ID"]
               /\ reqs[i].auth = "Bearer " \o env["NANGO_SECRET_KEY"]
C30_Witness ==
    /\ tok.called /\ tokenCalls = 2 /\ reqs = <<>> /\ ~tok.out.raised
    /\ env["NANGO_BASE_URL"] = "" /\ \A v \in BrokerConfig \ {"NANGO_BASE_URL"} : ~AbsentOrEmpty(v)

====
